---- MODULE Spec2Model ----
(***************************************************************************)
(* Model of main.py: the matching / quality-gating / throttling core of    *)
(* the face-recognition attendance loop, its frame sampling, its           *)
(* fire-and-forget delivery threads and the capture device's lifetime.     *)
(*                                                                         *)
(* Units.  Time is in whole seconds (time.time()).  Detection scores and   *)
(* the similarity threshold are in hundredths (0.5 -> 50, 0.45 -> 45).     *)
(* Embeddings are integer vectors of dimension D whose Euclidean norm is   *)
(* an integer, so that np.linalg.norm is exact; a similarity is kept as    *)
(* the pair (num, den) that stands for num / (den + 1e-8).                 *)
(***************************************************************************)
EXTENDS Integers, Sequences, FiniteSets, Bags, TLC

----------------------------------------------------------------------------
(* Program constants (main.py lines 31-38, 151-152).                       *)

SKIP_FRAMES == 3
SIM_THRESHOLD == 45
UNKNOWN_SAVE_COOLDOWN == 10
KNOWN_LOG_COOLDOWN == 10
MIN_DETECTION_SCORE == 50
BLUR_THRESHOLD == 180
MIN_FRAME_EDGE_DISTANCE == 30
FRAME_WIDTH == 1080
FRAME_HEIGHT == 720

(* Bounds of the model.                                                    *)
MaxFrames == 4
MaxDets == 2
MaxClock == 22
MaxFiles == 2

None == 0

----------------------------------------------------------------------------
(* Input domains.                                                          *)

\* Seconds that may pass between two readings of time.time().
ClockSteps == {0, 5, KNOWN_LOG_COOLDOWN, KNOWN_LOG_COOLDOWN + 1}

\* Variance of the Laplacian of a crop, around BLUR_THRESHOLD.
LapVars == {BLUR_THRESHOLD, BLUR_THRESHOLD + 1}

\* A file of an identity's directory: whether cv2.imread reads it, and the
\* faces app.get finds in it.
Image(readable, res) == [readable |-> readable, res |-> res]

\* An entry of the enrollment folder: a directory of image files, or a file.
Entry(name, is_dir, files) == [name |-> name, is_dir |-> is_dir, files |-> files]

\* The enrollment folders of the runs of main: one where nothing is usable,
\* and one with two identities, the first enrolled with two usable images.
Folders ==
    { [exists |-> TRUE,
       entries |-> << Entry("notes.txt", FALSE, << >>),
                      Entry("Carol", TRUE, << Image(FALSE, << >>), Image(TRUE, << >>) >>) >>],
      [exists |-> TRUE,
       entries |-> << Entry("Alice", TRUE, << Image(TRUE, << <<6, 0>> >>),
                                              Image(FALSE, << >>),
                                              Image(TRUE, << <<0, 8>> >>) >>),
                      Entry("Bob", TRUE, << Image(TRUE, << <<3, -4>> >>) >>) >>] }

\* Detections app.get may return: bbox (x1, y1, x2, y2), embedding, det_score.
Detections ==
    { [bbox |-> <<5, 100, 200, 300>>,   embedding |-> <<5, 0>>,   det_score |-> 90],
      [bbox |-> <<30, 30, 1050, 690>>,  embedding |-> <<-3, -4>>, det_score |-> 50],
      [bbox |-> <<100, 100, 300, 300>>, embedding |-> <<0, 0>>,   det_score |-> 40] }

\* What one app.get call may return: up to MaxDets faces, each face once.
DetectionLists ==
    UNION { { dets \in [1..n -> Detections] :
                \A i, j \in 1..n : dets[i] = dets[j] => i = j } : n \in 0..MaxDets }

----------------------------------------------------------------------------
VARIABLES
    folder,             \* the enrollment folder "faces" as the file system has it
    known,              \* known_embeddings: the (name, reference) pairs, in order
    supabase,           \* TRUE iff create_client gave a client (line 20-28)
    names,              \* ordered list of known people (line 71)
    embs_array,         \* reference embeddings, row i belongs to names[i]
    embs_norm,          \* precomputed norms of the rows
    unknown_cooldowns,  \* embedding bytes -> last saved time (line 77)
    known_cooldowns,    \* name -> last logged time (line 78)
    clock,              \* the last value time.time() returned
    pc,                 \* position of main
    cap,                \* the capture device: "closed", "opened", "failed", "released"
    frame_id,           \* frame counter of main
    last_detections,    \* detections being used for the decisions
    di,                 \* index in last_detections of the detection to process next
    threads,            \* payloads of the started delivery threads still to run
    inserts,            \* number of insert().execute() calls made on the store
    errors,             \* TRUE iff one of those raised ("Error logging to DB")
    sent_at,            \* history: name -> time of the latest log_to_supabase_async call
    saved_at,           \* history: embedding bytes -> time of the latest cv2.imwrite
    reads,              \* history: number of frames cap.read() returned
    invoked,            \* history: app.get was called on the current frame
    returned,           \* history: what the latest app.get call returned
    ev,                 \* history: the latest detection step, its inputs and outcome
    seen,               \* history: embedding -> the latest match result and name for it
    off,                \* the tables of a second run, fed the same frames, detections
                        \* and clock, whose store is disabled (SpecPair only)
    exit                \* history: how main left

vars == << folder, known, supabase, names, embs_array, embs_norm, unknown_cooldowns,
           known_cooldowns, clock, pc, cap, frame_id, last_detections, di,
           threads, inserts, errors, sent_at, saved_at, reads, invoked, returned,
           ev, seen, off, exit >>

registry == << names, embs_array, embs_norm >>
enrollment == << folder, known >>
history == << sent_at, saved_at, seen >>

----------------------------------------------------------------------------
(* Arithmetic helpers.                                                     *)

Max(a, b) == IF a >= b THEN a ELSE b
Min(a, b) == IF a <= b THEN a ELSE b
Abs(a) == IF a < 0 THEN 0 - a ELSE a

RECURSIVE Pow2(_)
Pow2(n) == IF n = 0 THEN 1 ELSE 2 * Pow2(n - 1)

\* floor(log2 a), a >= 1
RECURSIVE Log2(_)
Log2(a) == IF a < 2 THEN 0 ELSE 1 + Log2(a \div 2)

\* floor(sqrt n); exact on the embeddings of the model, whose norms are integers
ISqrt(n) == CHOOSE r \in 0..n : r * r <= n /\ n < (r + 1) * (r + 1)

RECURSIVE DotUpTo(_, _, _)
DotUpTo(u, v, k) == IF k = 0 THEN 0 ELSE u[k] * v[k] + DotUpTo(u, v, k - 1)

\* ndarray.dot of two vectors
Dot(u, v) == DotUpTo(u, v, Len(u))

\* np.linalg.norm of a vector
Norm(v) == ISqrt(Dot(v, v))

----------------------------------------------------------------------------
(* Enrollment (line 50-73).                                                *)

\* line 56-63: the embeddings collected from the first k files of a
\* directory; a file that cannot be read or shows no face is passed over
RECURSIVE embs_of(_, _)
embs_of(files, k) ==
    IF k = 0 THEN << >>
    ELSE LET img == files[k]
             embs == embs_of(files, k - 1)
         IN  IF ~img.readable THEN embs
             ELSE IF Len(img.res) = 0 THEN embs
             ELSE Append(embs, img.res[1])

RECURSIVE SumAt(_, _, _)
SumAt(embs, c, k) == IF k = 0 THEN 0 ELSE embs[k][c] + SumAt(embs, c, k - 1)

\* a "mean" that keeps the embedding of the first image only
mean_first(embs) == embs[1]

\* np.mean(embs, axis=0); exact on the folders of the model, where the
\* number of embeddings divides every sum
mean(embs) ==
    [c \in 1..Len(embs[1]) |-> SumAt(embs, c, Len(embs)) \div Len(embs)]

\* line 53-66 on the first k entries of the listing
RECURSIVE load_entries(_, _)
load_entries(entries, k) ==
    IF k = 0 THEN << >>
    ELSE LET e == entries[k]
             loaded == load_entries(entries, k - 1)
             embs == embs_of(e.files, Len(e.files))
         IN  IF ~e.is_dir THEN loaded
             ELSE IF Len(embs) = 0 THEN loaded
             ELSE Append(loaded, << e.name, mean(embs) >>)

\* line 50-67: the dictionary as the sequence of its items, in insertion order
load_known_embeddings(f) ==
    IF ~f.exists THEN << >> ELSE load_entries(f.entries, Len(f.entries))

\* Enrolled identities: the (name, reference embedding) pairs that
\* load_known_embeddings returned, in dictionary order.
Registries == { load_known_embeddings(f) : f \in Folders }

\* The folders enrollment is checked on: missing, or up to two entries of up
\* to two files each, such that every mean and every norm is an integer.
Images ==
    { Image(FALSE, << >>), Image(TRUE, << >>),
      Image(TRUE, << <<6, 0>> >>), Image(TRUE, << <<0, 8>> >>),
      Image(TRUE, << <<3, -4>> >>), Image(TRUE, << <<3, -4>>, <<6, 0>> >>) }

FileLists == UNION { [1..n -> Images] : n \in 0..MaxFiles }

Entries ==
    { Entry(n, TRUE, fl) : n \in {"Alice"}, fl \in FileLists }
        \cup { Entry("Alice", FALSE, << >>) }

Renamed(e, n) == Entry(n, e.is_dir, e.files)

ExactMean(embs) ==
    \/ Len(embs) = 0
    \/ /\ \A c \in 1..Len(embs[1]) : SumAt(embs, c, Len(embs)) % Len(embs) = 0
       /\ Norm(mean(embs)) * Norm(mean(embs)) = Dot(mean(embs), mean(embs))

LoadFolders ==
    { f \in { [exists |-> FALSE, entries |-> << >>], [exists |-> TRUE, entries |-> << >>] }
            \cup { [exists |-> TRUE, entries |-> << a >>] : a \in Entries }
            \cup { [exists |-> TRUE, entries |-> << a, Renamed(b, "Bob") >>] :
                      a \in Entries, b \in Entries } :
        \A i \in 1..Len(f.entries) :
            ExactMean(embs_of(f.entries[i].files, Len(f.entries[i].files))) }

----------------------------------------------------------------------------
(* Similarities: [num, den] stands for num / (den + 1e-8), with integer    *)
(* num and den >= 0 (line 88).  1e-8 * |num| < 1 for every value of the    *)
(* model, which makes the comparisons below exact.                         *)

Zero == [num |-> 0, den |-> 0]

\* a < b as real numbers
SimLess(a, b) ==
    LET x == a.num * b.den - b.num * a.den
    IN  IF x # 0 THEN x < 0 ELSE a.num < b.num

\* a threshold test that every nearest identity passes
SimAtLeast_any(a, t) == TRUE

\* a >= t / 100 as real numbers, t > 0
SimAtLeast(a, t) == 100 * a.num > t * a.den

\* an argmax that returns the last index of a maximal entry
argmax_last(sims) ==
    CHOOSE i \in DOMAIN sims :
        /\ \A j \in DOMAIN sims : ~SimLess(sims[i], sims[j])
        /\ \A j \in DOMAIN sims : j > i => SimLess(sims[j], sims[i])

\* np.argmax: the first index of a maximal entry
argmax(sims) ==
    CHOOSE i \in DOMAIN sims :
        /\ \A j \in DOMAIN sims : ~SimLess(sims[i], sims[j])
        /\ \A j \in DOMAIN sims : j < i => SimLess(sims[j], sims[i])

\* cosine_sim_vectorized without its test of the query's norm
cosine_sim_no_norm_test(emb) ==
    IF Len(embs_array) = 0
    THEN [idx |-> None, sim |-> Zero]
    ELSE LET emb_norm == Norm(emb)
             sims == [i \in 1..Len(embs_array) |->
                        [num |-> Dot(embs_array[i], emb),
                         den |-> embs_norm[i] * emb_norm]]
             idx == argmax(sims)
         IN  [idx |-> idx, sim |-> sims[idx]]

\* line 81-90.  Indices are 1-based here (names[best_idx]), and None is 0.
cosine_sim_vectorized(emb) ==
    IF Len(embs_array) = 0
    THEN [idx |-> None, sim |-> Zero]
    ELSE LET emb_norm == Norm(emb)
         IN  IF emb_norm = 0
             THEN [idx |-> None, sim |-> Zero]
             ELSE LET sims == [i \in 1..Len(embs_array) |->
                                 [num |-> Dot(embs_array[i], emb),
                                  den |-> embs_norm[i] * emb_norm]]
                      idx == argmax(sims)
                  IN  [idx |-> idx, sim |-> sims[idx]]

----------------------------------------------------------------------------
(* embedding.tobytes(): the little-endian IEEE-754 single-precision bytes  *)
(* of every component, concatenated.                                       *)

Float32Bytes(c) ==
    IF c = 0 THEN <<0, 0, 0, 0>>
    ELSE LET a == Abs(c)
             e == Log2(a)
             mant == (a - Pow2(e)) * Pow2(23 - e)
             biased == e + 127
             sign == IF c < 0 THEN 1 ELSE 0
         IN  << mant % 256,
                (mant \div 256) % 256,
                (biased % 2) * 128 + mant \div 65536,
                sign * 128 + biased \div 2 >>

RECURSIVE BytesUpTo(_, _)
BytesUpTo(v, k) == IF k = 0 THEN << >> ELSE BytesUpTo(v, k - 1) \o Float32Bytes(v[k])

tobytes(embedding) == BytesUpTo(embedding, Len(embedding))

----------------------------------------------------------------------------
(* Quality gate.                                                           *)

\* face_cutoff without its test of the left edge
face_cutoff_no_left(bbox, w, h) ==
    \/ bbox[2] < MIN_FRAME_EDGE_DISTANCE
    \/ bbox[3] > w - MIN_FRAME_EDGE_DISTANCE
    \/ bbox[4] > h - MIN_FRAME_EDGE_DISTANCE

\* line 209-210: the box touches the margin of a frame of w x h pixels
face_cutoff(bbox, w, h) ==
    \/ bbox[1] < MIN_FRAME_EDGE_DISTANCE
    \/ bbox[2] < MIN_FRAME_EDGE_DISTANCE
    \/ bbox[3] > w - MIN_FRAME_EDGE_DISTANCE
    \/ bbox[4] > h - MIN_FRAME_EDGE_DISTANCE

\* line 215-217: the padded crop; size is its number of pixels, lap the
\* variance of its Laplacian
crop_of(bbox, w, h, lap) ==
    LET x1c == Max(0, bbox[1] - 30)
        y1c == Max(0, bbox[2] - 30)
        x2c == Min(w, bbox[3] + 30)
        y2c == Min(h, bbox[4] + 60)
    IN  [size |-> Max(0, y2c - y1c) * Max(0, x2c - x1c), lap |-> lap]

is_face_clear(img) ==
    IF img.size = 0 THEN FALSE ELSE img.lap > BLUR_THRESHOLD

----------------------------------------------------------------------------
(* Throttles and dispatch, as functions of the tables they read and write. *)

\* line 98-116: starts one daemon thread that carries the payload by value
log_to_supabase_async(thr, name, is_known) ==
    thr (+) SetToBag({[name |-> name, is_known |-> is_known]})

\* line 193-197: the known-identity log throttle
known_log(kc, name, now) ==
    LET last_log == IF name \in DOMAIN kc THEN kc[name] ELSE 0
    IN  IF now - last_log > KNOWN_LOG_COOLDOWN
        THEN [sent |-> TRUE, kc |-> (name :> now) @@ kc]
        ELSE [sent |-> FALSE, kc |-> kc]

\* a save_unknown that reports success without looking at the face or saving it
save_unknown_yes(uc, face_crop, embedding, det_score, now) ==
    [ret |-> TRUE, uc |-> uc, wrote |-> FALSE]

\* a save_unknown that stamps the fingerprint before it tests the sharpness
save_unknown_stamps_first(uc, face_crop, embedding, det_score, now) ==
    LET emb_key == tobytes(embedding)
    IN  IF det_score < MIN_DETECTION_SCORE
        THEN [ret |-> FALSE, uc |-> uc, wrote |-> FALSE]
        ELSE IF emb_key \in DOMAIN uc /\ now - uc[emb_key] < UNKNOWN_SAVE_COOLDOWN
        THEN [ret |-> FALSE, uc |-> uc, wrote |-> FALSE]
        ELSE IF ~is_face_clear(face_crop)
        THEN [ret |-> FALSE, uc |-> (emb_key :> now) @@ uc, wrote |-> FALSE]
        ELSE LET ok == face_crop.size > 0
             IN  [ret |-> ok, uc |-> (emb_key :> now) @@ uc, wrote |-> ok]

\* a save_unknown that evicts the fingerprint's entry once its window is over
save_unknown_expires(uc, face_crop, embedding, det_score, now) ==
    LET emb_key == tobytes(embedding)
        live == [k \in DOMAIN uc \ {emb_key} |-> uc[k]]
    IN  IF det_score < MIN_DETECTION_SCORE
        THEN [ret |-> FALSE, uc |-> uc, wrote |-> FALSE]
        ELSE IF emb_key \in DOMAIN uc /\ now - uc[emb_key] < UNKNOWN_SAVE_COOLDOWN
        THEN [ret |-> FALSE, uc |-> uc, wrote |-> FALSE]
        ELSE IF ~is_face_clear(face_crop)
        THEN [ret |-> FALSE, uc |-> live, wrote |-> FALSE]
        ELSE LET ok == face_crop.size > 0
             IN  [ret |-> ok, uc |-> (emb_key :> now) @@ live, wrote |-> ok]

\* line 118-146: ret is the value returned, wrote tells whether cv2.imwrite ran
save_unknown(uc, face_crop, embedding, det_score, now) ==
    LET emb_key == tobytes(embedding)
    IN  IF det_score < MIN_DETECTION_SCORE
        THEN [ret |-> FALSE, uc |-> uc, wrote |-> FALSE]
        ELSE IF emb_key \in DOMAIN uc /\ now - uc[emb_key] < UNKNOWN_SAVE_COOLDOWN
        THEN [ret |-> FALSE, uc |-> uc, wrote |-> FALSE]
        ELSE IF ~is_face_clear(face_crop)
        THEN [ret |-> FALSE, uc |-> uc, wrote |-> FALSE]
        ELSE LET ok == face_crop.size > 0
             IN  [ret |-> ok, uc |-> (emb_key :> now) @@ uc, wrote |-> ok]

\* a loop body that applies the containment and sharpness tests to known
\* matches too, before it logs them
process_detection_gated(kc, uc, det, now, lap) ==
    LET m == cosine_sim_vectorized(det.embedding)
        crop == crop_of(det.bbox, FRAME_WIDTH, FRAME_HEIGHT, lap)
    IN  IF m.idx # None /\ SimAtLeast(m.sim, SIM_THRESHOLD)
        THEN LET name == names[m.idx]
                 r == IF face_cutoff(det.bbox, FRAME_WIDTH, FRAME_HEIGHT) \/ ~is_face_clear(crop)
                      THEN [sent |-> FALSE, kc |-> kc]
                      ELSE known_log(kc, name, now)
             IN  [kind |-> "known", name |-> name, match |-> m,
                  kc |-> r.kc, uc |-> uc, wrote |-> FALSE,
                  sent |-> IF r.sent THEN << [name |-> name, is_known |-> TRUE] >>
                           ELSE << >>]
        ELSE IF face_cutoff(det.bbox, FRAME_WIDTH, FRAME_HEIGHT)
        THEN [kind |-> "cutoff", name |-> "Unknown", match |-> m,
              kc |-> kc, uc |-> uc, wrote |-> FALSE, sent |-> << >>]
        ELSE LET r == save_unknown(uc, crop, det.embedding, det.det_score, now)
             IN  [kind |-> "unknown", name |-> "Unknown", match |-> m,
                  kc |-> kc, uc |-> r.uc, wrote |-> r.wrote,
                  sent |-> IF r.ret THEN << [name |-> "Unknown", is_known |-> FALSE] >>
                           ELSE << >>]

\* line 174-221: the body of the for loop on one detection.  kind is the
\* branch taken, name the value of the variable name, sent the payloads given
\* to log_to_supabase_async (none or one).
process_detection(kc, uc, det, now, lap) ==
    LET m == cosine_sim_vectorized(det.embedding)
    IN  IF m.idx # None /\ SimAtLeast(m.sim, SIM_THRESHOLD)
        THEN LET name == names[m.idx]
                 r == known_log(kc, name, now)
             IN  [kind |-> "known", name |-> name, match |-> m,
                  kc |-> r.kc, uc |-> uc, wrote |-> FALSE,
                  sent |-> IF r.sent THEN << [name |-> name, is_known |-> TRUE] >>
                           ELSE << >>]
        ELSE IF face_cutoff(det.bbox, FRAME_WIDTH, FRAME_HEIGHT)
        THEN [kind |-> "cutoff", name |-> "Unknown", match |-> m,
              kc |-> kc, uc |-> uc, wrote |-> FALSE, sent |-> << >>]
        ELSE LET crop == crop_of(det.bbox, FRAME_WIDTH, FRAME_HEIGHT, lap)
                 r == save_unknown(uc, crop, det.embedding, det.det_score, now)
             IN  [kind |-> "unknown", name |-> "Unknown", match |-> m,
                  kc |-> kc, uc |-> r.uc, wrote |-> r.wrote,
                  sent |-> IF r.ret THEN << [name |-> "Unknown", is_known |-> FALSE] >>
                           ELSE << >>]

RECURSIVE start_threads(_, _)
start_threads(thr, sent) ==
    IF sent = << >> THEN thr
    ELSE start_threads(log_to_supabase_async(thr, Head(sent).name, Head(sent).is_known),
                       Tail(sent))

----------------------------------------------------------------------------
(* The state after the module is imported and before main runs.            *)

NoTables == [known_cooldowns |-> << >>, unknown_cooldowns |-> << >>,
             sent_at |-> << >>, saved_at |-> << >>,
             kind |-> "none", name |-> "", sent |-> FALSE, wrote |-> FALSE]

NoEv == [kind |-> "none", name |-> "", sent |-> FALSE, wrote |-> FALSE,
         lap |-> None, after_error |-> FALSE]

Init ==
    /\ supabase \in BOOLEAN
    /\ folder \in Folders
    /\ known = load_known_embeddings(folder)
    /\ names = [i \in 1..Len(known) |-> known[i][1]]
    /\ embs_array = [i \in 1..Len(known) |-> known[i][2]]
    /\ embs_norm = [i \in 1..Len(known) |-> Norm(known[i][2])]
    /\ unknown_cooldowns = << >>
    /\ known_cooldowns = << >>
    /\ clock = 0
    /\ pc = "open"
    /\ cap = "closed"
    /\ frame_id = 0
    /\ last_detections = << >>
    /\ di = 1
    /\ threads = EmptyBag
    /\ inserts = 0
    /\ errors = FALSE
    /\ sent_at = << >>
    /\ saved_at = << >>
    /\ reads = 0
    /\ invoked = FALSE
    /\ returned = << >>
    /\ ev = NoEv
    /\ seen = << >>
    /\ off = NoTables
    /\ exit = "running"

----------------------------------------------------------------------------
(* main.                                                                   *)

store == << threads, inserts, errors >>
tables == << unknown_cooldowns, known_cooldowns >>
sampling == << frame_id, last_detections, di, reads, invoked, returned >>

\* line 150-160: the device is opened; when it is not, main returns at once
OpenCamera ==
    /\ pc = "open"
    /\ \E opened \in BOOLEAN :
        IF opened
        THEN cap' = "opened" /\ pc' = "read" /\ exit' = exit
        ELSE cap' = "failed" /\ pc' = "done" /\ exit' = "open_failed"
    /\ UNCHANGED << supabase, off, registry, enrollment, tables, clock, sampling, store, history, ev >>

\* a finally block that leaves the device as it is
finally_no_release(c) == c

\* line 234-236: the finally block, on the device c
finally(c) == "released"

\* app.get on the frame after every SKIP_FRAMES-th one
detect_due_late(fid) == fid % SKIP_FRAMES = 1

\* line 170: whether app.get runs on the frame numbered fid
detect_due(fid) == fid % SKIP_FRAMES = 0

\* where the for loop starts on a list of detections
ForLoop(dets) == IF Len(dets) = 0 THEN "show" ELSE "dets"

\* line 165-170, 234-236: one frame is read, or the read fails, the loop is
\* left and the finally block runs
ReadFrame ==
    /\ pc = "read"
    /\ \E ret \in BOOLEAN :
        IF ret
        THEN /\ frame_id < MaxFrames
             /\ frame_id' = frame_id + 1
             /\ reads' = reads + 1
             /\ invoked' = FALSE
             /\ di' = 1
             /\ pc' = IF detect_due(frame_id') THEN "detect"
                      ELSE ForLoop(last_detections)
             /\ exit' = exit
             /\ cap' = cap
        ELSE /\ pc' = "done"
             /\ exit' = "read_failed"
             /\ cap' = finally(cap)
             /\ UNCHANGED << frame_id, reads, invoked, di >>
    /\ ev' = NoEv
    /\ off' = [off EXCEPT !.kind = "none", !.name = "", !.sent = FALSE, !.wrote = FALSE]
    /\ UNCHANGED << supabase, registry, enrollment, tables, clock, last_detections,
                    returned, store, history >>

\* line 171: the detection/embedding collaborator runs on the frame
Detect ==
    /\ pc = "detect"
    /\ \E dets \in DetectionLists :
        /\ last_detections' = dets
        /\ returned' = dets
        /\ pc' = ForLoop(dets)
    /\ invoked' = TRUE
    /\ UNCHANGED << supabase, off, registry, enrollment, tables, clock, cap, frame_id, di, reads,
                    store, history, ev, exit >>

\* line 173-227: one turn of the for loop, with time.time() returning now and
\* the crop's Laplacian having variance lap
ProcessDetection(now, lap) ==
    /\ pc = "dets"
    /\ \E det \in {last_detections[di]} :
       \E r \in {process_detection(known_cooldowns, unknown_cooldowns, det, now, lap)} :
           /\ known_cooldowns' = r.kc
           /\ unknown_cooldowns' = r.uc
           /\ threads' = start_threads(threads, r.sent)
           /\ sent_at' = [n \in {r.sent[i].name : i \in 1..Len(r.sent)} |-> now]
                          @@ sent_at
           /\ saved_at' = IF r.wrote THEN (tobytes(det.embedding) :> now) @@ saved_at
                          ELSE saved_at
           /\ seen' = (det.embedding :> [idx |-> r.match.idx, sim |-> r.match.sim,
                                         name |-> r.name]) @@ seen
           /\ ev' = [kind |-> r.kind, name |-> r.name, sent |-> r.sent # << >>, wrote |-> r.wrote,
                     lap |-> IF r.kind = "unknown" THEN lap ELSE None,
                     after_error |-> errors]
    /\ clock' = now
    /\ di' = di + 1
    /\ pc' = IF di = Len(last_detections) THEN "show" ELSE "dets"
    /\ UNCHANGED << supabase, registry, enrollment, cap, frame_id, last_detections, reads,
                    invoked, returned, inserts, errors, exit >>

Readings == { t \in clock..MaxClock : t - clock \in ClockSteps }

\* a for loop that waits for the started deliveries to end (thread.join())
\* before it takes the next detection
Process_joins ==
    /\ threads = EmptyBag
    /\ \E now \in Readings, lap \in LapVars : ProcessDetection(now, lap) /\ off' = off

Process ==
    \E now \in Readings, lap \in LapVars : ProcessDetection(now, lap) /\ off' = off

\* the same turn of the for loop in the run whose store is disabled: the same
\* code on that run's tables (log_to_supabase_async starts a thread there too,
\* which returns at line 101)
process_off(t, det, now, lap) ==
    LET r == process_detection(t.known_cooldowns, t.unknown_cooldowns, det, now, lap)
    IN  [known_cooldowns |-> r.kc,
         unknown_cooldowns |-> r.uc,
         sent_at |-> [n \in {r.sent[i].name : i \in 1..Len(r.sent)} |-> now] @@ t.sent_at,
         saved_at |-> IF r.wrote THEN (tobytes(det.embedding) :> now) @@ t.saved_at
                      ELSE t.saved_at,
         kind |-> r.kind, name |-> r.name, sent |-> r.sent # << >>, wrote |-> r.wrote]

ProcessBoth ==
    \E now \in Readings, lap \in LapVars :
        /\ ProcessDetection(now, lap)
        /\ off' = process_off(off, last_detections[di], now, lap)

\* a loop that forgets the last enrolled name when it goes on to the next frame
ShowFrame_forgets ==
    /\ pc = "show"
    /\ pc' = "read"
    /\ names' = SubSeq(names, 1, Len(names) - 1)
    /\ UNCHANGED << supabase, off, embs_array, embs_norm, enrollment, tables, clock,
                    sampling, store, history, ev, exit, cap >>

\* line 229-236: the frame is shown and the keyboard polled once; on "q" the
\* loop is left and the finally block runs.  quit tells whether "q" was
\* pressed since the previous poll: a key pressed while the frame is
\* processed waits in the window's event queue until cv2.waitKey reads it.
ShowFrame ==
    /\ pc = "show"
    /\ \E quit \in BOOLEAN :
        IF quit THEN pc' = "done" /\ exit' = "stop" /\ cap' = finally(cap)
        ELSE pc' = "read" /\ exit' = exit /\ cap' = cap
    /\ UNCHANGED << supabase, off, registry, enrollment, tables, clock, sampling, store,
                    history, ev >>

\* a loop that polls the keyboard before app.get and between two detections
\* too, and leaves at once on "q"
Poll_in_frame ==
    /\ pc \in {"detect", "dets"}
    /\ pc' = "done"
    /\ exit' = "stop"
    /\ cap' = finally(cap)
    /\ UNCHANGED << supabase, off, registry, enrollment, tables, clock, sampling, store,
                    history, ev >>

\* line 163-236: app.get or the body of the for loop raises inside the try
\* block, the finally block runs and the exception leaves main
Raise ==
    /\ pc \in {"detect", "dets"}
    /\ pc' = "done"
    /\ exit' = "exception"
    /\ cap' = finally(cap)
    /\ UNCHANGED << supabase, off, registry, enrollment, tables, clock, sampling, store,
                    history, ev >>

----------------------------------------------------------------------------
(* A delivery thread (_send, line 100-112) runs to its end.                *)

\* _send without its try/except, run by the caller instead of a thread: a
\* failing insert raises in main
send_propagates ==
    \E p \in BagToSet(threads) :
        /\ pc # "done"
        /\ supabase
        /\ threads' = threads (-) SetToBag({p})
        /\ inserts' = inserts + 1
        /\ errors' = TRUE
        /\ pc' = "done"
        /\ exit' = "exception"
        /\ cap' = finally(cap)
        /\ UNCHANGED << off, registry, enrollment, supabase, tables, clock, sampling, history, ev >>

\* _send that, when the insert raises, forgets the cooldown of the name so
\* that the event is logged again
send_rollback ==
    \E p \in BagToSet(threads) :
        /\ pc # "done"
        /\ threads' = threads (-) SetToBag({p})
        /\ IF ~supabase
           THEN UNCHANGED << inserts, errors, known_cooldowns >>
           ELSE \E raised \in BOOLEAN :
                   /\ inserts' = inserts + 1
                   /\ errors' = (errors \/ raised)
                   /\ known_cooldowns' =
                        IF raised
                        THEN [n \in DOMAIN known_cooldowns \ {p.name} |-> known_cooldowns[n]]
                        ELSE known_cooldowns
        /\ UNCHANGED << supabase, off, registry, enrollment, unknown_cooldowns, clock, pc, cap,
                        sampling, history, ev, exit >>

\* _send that tries the insert again when it raised
send_retries ==
    \E p \in BagToSet(threads) :
        /\ pc # "done"
        /\ IF ~supabase
           THEN /\ threads' = threads (-) SetToBag({p})
                /\ UNCHANGED << inserts, errors >>
           ELSE \E raised \in BOOLEAN :
                   /\ inserts' = inserts + 1
                   /\ errors' = (errors \/ raised)
                   /\ threads' = IF raised THEN threads ELSE threads (-) SetToBag({p})
        /\ inserts < MaxDets * MaxFrames
        /\ UNCHANGED << supabase, off, registry, enrollment, tables, clock, pc, cap, sampling,
                        history, ev, exit >>

send ==
    \E p \in BagToSet(threads) :
        /\ pc # "done"
        /\ threads' = threads (-) SetToBag({p})
        /\ IF ~supabase
           THEN UNCHANGED << inserts, errors >>
           ELSE \E raised \in BOOLEAN :
                   /\ inserts' = inserts + 1
                   /\ errors' = (errors \/ raised)
        /\ UNCHANGED << supabase, off, registry, enrollment, tables, clock, pc, cap, sampling,
                        history, ev, exit >>

Next ==
    \/ OpenCamera
    \/ ReadFrame
    \/ Detect
    \/ Process
    \/ ShowFrame
    \/ Raise
    \/ send

Spec == Init /\ [][Next]_vars

\* Enrollment on its own: the module is imported on a folder of LoadFolders
\* (line 50-73), up to the point where main would start.
InitLoad ==
    /\ supabase \in BOOLEAN
    /\ folder \in LoadFolders
    /\ known = << >>
    /\ names = << >>
    /\ embs_array = << >>
    /\ embs_norm = << >>
    /\ unknown_cooldowns = << >>
    /\ known_cooldowns = << >>
    /\ clock = 0
    /\ pc = "import"
    /\ cap = "closed"
    /\ frame_id = 0
    /\ last_detections = << >>
    /\ di = 1
    /\ threads = EmptyBag
    /\ inserts = 0
    /\ errors = FALSE
    /\ sent_at = << >>
    /\ saved_at = << >>
    /\ reads = 0
    /\ invoked = FALSE
    /\ returned = << >>
    /\ ev = NoEv
    /\ seen = << >>
    /\ off = NoTables
    /\ exit = "running"

\* line 70-73
Load ==
    /\ pc = "import"
    /\ known' = load_known_embeddings(folder)
    /\ names' = [i \in 1..Len(known') |-> known'[i][1]]
    /\ embs_array' = [i \in 1..Len(known') |-> known'[i][2]]
    /\ embs_norm' = [i \in 1..Len(known') |-> Norm(known'[i][2])]
    /\ pc' = "open"
    /\ UNCHANGED << folder, supabase, off, tables, clock, cap, sampling, store,
                    history, ev, exit >>

NextLoad == Load

SpecLoad == InitLoad /\ [][NextLoad]_vars

\* Two runs side by side on the same input: the one above with the store
\* enabled, and the tables of the one with the store disabled in off.
InitPair == Init /\ supabase

NextPair ==
    \/ OpenCamera
    \/ ReadFrame
    \/ Detect
    \/ ProcessBoth
    \/ ShowFrame
    \/ Raise
    \/ send

SpecPair == InitPair /\ [][NextPair]_vars

----------------------------------------------------------------------------
(* Vocabulary of the properties.                                           *)

\* a step of the for loop on the detection last_detections[di]
DetStep == pc = "dets" /\ di' = di + 1

\* the detection that a DetStep processes, and its fingerprint
CurDet == last_detections[di]
CurKey == tobytes(CurDet.embedding)

\* the step is a known match of the identity n
KnownEvent(n) == DetStep /\ ev'.kind = "known" /\ ev'.name = n

\* the step is on the unknown branch and passes containment, detection score
\* and sharpness: only the throttle can stop the save
UnknownEvent ==
    /\ DetStep
    /\ ev'.kind = "unknown"
    /\ CurDet.det_score >= MIN_DETECTION_SCORE
    /\ ev'.lap > BLUR_THRESHOLD

Names == { names[i] : i \in DOMAIN names }

Payload(n, k) == [name |-> n, is_known |-> k]

\* the step started a delivery thread for n and stamped n with the time read
KnownAllowed(n) ==
    /\ threads' = threads (+) SetToBag({Payload(n, TRUE)})
    /\ known_cooldowns' = (n :> clock') @@ known_cooldowns

KnownSuppressed == threads' = threads /\ known_cooldowns' = known_cooldowns

\* the step saved the crop, stamped the fingerprint and dispatched "Unknown"
UnknownAllowed ==
    /\ ev'.wrote
    /\ threads' = threads (+) SetToBag({Payload("Unknown", FALSE)})
    /\ unknown_cooldowns' = (CurKey :> clock') @@ unknown_cooldowns

UnknownSuppressed ==
    /\ ~ev'.wrote
    /\ threads' = threads
    /\ unknown_cooldowns' = unknown_cooldowns

----------------------------------------------------------------------------
(* C1.  Both throttles, window 10 s: an event for a key without an entry   *)
(* is allowed whatever the clock reads; an event 5 s after the allowed one *)
(* is suppressed and leaves the stored time as it is; an event 11 s after  *)
(* the allowed one is allowed and the stored time becomes its time.        *)

C1_KnownFirst ==
    \A n \in Names :
        KnownEvent(n) /\ n \notin DOMAIN known_cooldowns => KnownAllowed(n)

C1_KnownLater ==
    \A n \in DOMAIN sent_at :
        /\ KnownEvent(n) /\ clock' - sent_at[n] = 5 => KnownSuppressed
        /\ KnownEvent(n) /\ clock' - sent_at[n] = 11 => KnownAllowed(n)

C1_UnknownFirst ==
    UnknownEvent /\ CurKey \notin DOMAIN unknown_cooldowns => UnknownAllowed

C1_UnknownLater ==
    UnknownEvent /\ CurKey \in DOMAIN saved_at =>
        /\ clock' - saved_at[CurKey] = 5 => UnknownSuppressed
        /\ clock' - saved_at[CurKey] = 11 => UnknownAllowed

\* C1 as stated: the four parts, on every step
C1_CooldownWindow ==
    [][C1_KnownFirst /\ C1_KnownLater /\ C1_UnknownFirst /\ C1_UnknownLater]_vars

\* the three parts of C1 that the code satisfies
C1_ExceptKnownFirst ==
    [][C1_KnownLater /\ C1_UnknownFirst /\ C1_UnknownLater]_vars

----------------------------------------------------------------------------
(* C2.  Any two known-identity dispatches for one name are more than       *)
(* KNOWN_LOG_COOLDOWN seconds apart; a known match on its first occurrence *)
(* triggers exactly one dispatch, and a second one within the window       *)
(* triggers none.                                                          *)

\* some thread was started by the step
Dispatched == threads' # threads

\* n was never matched before this step
FirstOccurrence(n) == \A e \in DOMAIN seen : seen[e].name # n

\* consecutive dispatches for a name are more than the window apart; with a
\* clock that never goes back, so are any two
C2_Separated ==
    \A n \in DOMAIN sent_at :
        KnownEvent(n) /\ Dispatched => clock' - sent_at[n] > KNOWN_LOG_COOLDOWN

C2_FirstOccurrence ==
    \A n \in Names :
        KnownEvent(n) /\ FirstOccurrence(n) =>
            threads' = threads (+) SetToBag({Payload(n, TRUE)})

C2_WithinWindow ==
    \A n \in DOMAIN sent_at :
        KnownEvent(n) /\ clock' - sent_at[n] <= KNOWN_LOG_COOLDOWN => ~Dispatched

\* C2 as stated
C2_KnownDispatches ==
    [][C2_Separated /\ C2_FirstOccurrence /\ C2_WithinWindow]_vars

\* the parts of C2 that the code satisfies
C2_ExceptFirstOccurrence == [][C2_Separated /\ C2_WithinWindow]_vars

----------------------------------------------------------------------------
(* C3.  Both throttles allow an action only when the time since the last   *)
(* allowed action for the key is strictly more than the window: an event   *)
(* exactly the window after it is suppressed.                              *)

C3_KnownStrict ==
    \A n \in DOMAIN sent_at :
        KnownEvent(n) /\ Dispatched => clock' - sent_at[n] > KNOWN_LOG_COOLDOWN

C3_UnknownStrict ==
    DetStep /\ ev'.wrote /\ CurKey \in DOMAIN saved_at
        => clock' - saved_at[CurKey] > UNKNOWN_SAVE_COOLDOWN

\* C3 as stated
C3_StrictlyMoreThanWindow == [][C3_KnownStrict /\ C3_UnknownStrict]_vars

\* what the code does for the unknown-face throttle: at least the window
C3_UnknownAtLeastWindow ==
    [][DetStep /\ ev'.wrote /\ CurKey \in DOMAIN saved_at
         => clock' - saved_at[CurKey] >= UNKNOWN_SAVE_COOLDOWN]_vars

----------------------------------------------------------------------------
(* C4.  On the unknown branch the face is saved only if the box is at      *)
(* least MIN_FRAME_EDGE_DISTANCE from every frame edge, det_score is at    *)
(* least MIN_DETECTION_SCORE and the crop's blur score is above            *)
(* BLUR_THRESHOLD.  If one of them fails, nothing is saved, no "Unknown"   *)
(* is dispatched, and the loop goes on to the next detection.              *)

Contained(bbox) ==
    /\ bbox[1] >= MIN_FRAME_EDGE_DISTANCE
    /\ bbox[2] >= MIN_FRAME_EDGE_DISTANCE
    /\ bbox[3] <= FRAME_WIDTH - MIN_FRAME_EDGE_DISTANCE
    /\ bbox[4] <= FRAME_HEIGHT - MIN_FRAME_EDGE_DISTANCE

GoesOn ==
    /\ di' = di + 1
    /\ pc' = IF di < Len(last_detections) THEN "dets" ELSE "show"
    /\ exit' = exit

C4_Step ==
    DetStep /\ ev'.name = "Unknown" =>
        \/ /\ Contained(CurDet.bbox)
           /\ CurDet.det_score >= MIN_DETECTION_SCORE
           /\ ev'.lap > BLUR_THRESHOLD
        \/ /\ ~ev'.wrote
           /\ saved_at' = saved_at
           /\ unknown_cooldowns' = unknown_cooldowns
           /\ threads' = threads
           /\ GoesOn

C4_QualityGate == [][C4_Step]_vars

\* a face with x1 = 5 was rejected, and the next detection of the frame waits
C4_Witness ==
    /\ pc = "dets"
    /\ di = 2
    /\ ev.kind = "cutoff"
    /\ last_detections[1].bbox[1] = 5
    /\ ~ev.wrote

----------------------------------------------------------------------------
(* C5.  An insert that raises inside a delivery thread never reaches the   *)
(* main loop: the step that delivers changes nothing main reads or writes, *)
(* and main goes on.                                                       *)

main_state == << pc, cap, exit, clock, tables, sampling, history, ev, registry >>

C5_DeliveryIsolated == [][inserts' # inserts => UNCHANGED main_state]_vars

\* after an insert has raised, main has dispatched another event and runs on
C5_Witness ==
    /\ errors
    /\ ev.after_error
    /\ ev.sent
    /\ exit = "running"

----------------------------------------------------------------------------
(* C6.  With the store disabled the pipeline takes the same decisions,     *)
(* saves the same faces and updates the cooldown tables in the same way as *)
(* with the store enabled, on the same detections and clock.               *)

C6_SameDecisions ==
    /\ off.known_cooldowns = known_cooldowns
    /\ off.unknown_cooldowns = unknown_cooldowns
    /\ off.sent_at = sent_at
    /\ off.saved_at = saved_at
    /\ << off.kind, off.name, off.sent, off.wrote >> = << ev.kind, ev.name, ev.sent, ev.wrote >>

\* the enabled store took an insert that raised, and both runs then logged a
\* known identity and saved an unknown face
C6_Witness ==
    /\ errors
    /\ inserts > 0
    /\ ev.after_error
    /\ DOMAIN off.known_cooldowns # {}
    /\ DOMAIN off.saved_at # {}

----------------------------------------------------------------------------
(* C7.  Every dispatched event has at most one delivery attempt: a step of *)
(* the loop starts one thread exactly when a throttle allowed its action,  *)
(* an attempt ends its thread whether it raised or not, and a disabled     *)
(* store sees no attempt.                                                  *)

Allowed == known_cooldowns' # known_cooldowns \/ ev'.wrote

C7_Step ==
    /\ DetStep => BagCardinality(threads') =
                    BagCardinality(threads) + (IF Allowed THEN 1 ELSE 0)
    /\ inserts' # inserts =>
          /\ supabase
          /\ inserts' = inserts + 1
          /\ BagCardinality(threads') = BagCardinality(threads) - 1
    /\ ~DetStep => BagCardinality(threads') <= BagCardinality(threads)

C7_OneAttempt == [][C7_Step]_vars

\* an insert raised and no thread is left that could try again
C7_Witness ==
    /\ errors
    /\ inserts = 1
    /\ threads = EmptyBag
    /\ DOMAIN sent_at # {}

----------------------------------------------------------------------------
(* C8.  The frame counter counts the frames read; app.get runs on a frame  *)
(* iff the counter is a multiple of SKIP_FRAMES; on every other frame the  *)
(* detections used are those the latest app.get call returned (none before *)
(* the first call).                                                        *)

C8_FrameSampling ==
    /\ frame_id = reads
    /\ pc \in {"dets", "show"} => (invoked <=> frame_id % SKIP_FRAMES = 0)
    /\ pc \in {"dets", "show"} => last_detections = returned
    /\ frame_id < SKIP_FRAMES => last_detections = << >>

\* the frame after a detection frame works on the detections of that frame
C8_Witness ==
    /\ pc = "dets"
    /\ frame_id = SKIP_FRAMES + 1
    /\ ~invoked
    /\ Len(last_detections) = 2

----------------------------------------------------------------------------
(* C9.  On every exit path of main the capture device is released before   *)
(* main returns.                                                           *)

----------------------------------------------------------------------------
(* C10.  cosine_sim_vectorized returns (None, 0.0) when the registry is    *)
(* empty or the query has zero norm, and the caller then treats the        *)
(* detection as unknown, with no error; a second call with the same query  *)
(* returns what the first returned, and no call changes the registry.      *)

ZeroNorm(emb) == \A k \in DOMAIN emb : emb[k] = 0

C10_Step ==
    DetStep =>
        LET emb == CurDet.embedding
        IN  /\ Len(embs_array) = 0 \/ ZeroNorm(emb) =>
                /\ seen'[emb].idx = None
                /\ seen'[emb].sim = Zero
                /\ seen'[emb].name = "Unknown"
                /\ ev'.kind \in {"cutoff", "unknown"}
                /\ known_cooldowns' = known_cooldowns
                /\ exit' = exit
            /\ emb \in DOMAIN seen =>
                /\ seen'[emb].idx = seen[emb].idx
                /\ seen'[emb].sim = seen[emb].sim
            /\ UNCHANGED registry

C10_NoMatch == [][C10_Step]_vars

\* with identities enrolled, a zero-norm query was matched on two frames and
\* taken as unknown
C10_Witness ==
    /\ Len(names) > 0
    /\ frame_id = SKIP_FRAMES + 1
    /\ pc = "show"
    /\ Len(last_detections) = 1
    /\ ZeroNorm(last_detections[1].embedding)
    /\ seen[last_detections[1].embedding].idx = None
    /\ ev.kind = "unknown"

----------------------------------------------------------------------------
(* C11.  When several identities have exactly the same maximal similarity  *)
(* to the query, the match is the first of them in registry order, and the *)
(* similarity returned is the maximum over all identities.                 *)

\* the similarity of the query to row i of the registry (line 88)
SimOf(i, emb) ==
    [num |-> Dot(embs_array[i], emb), den |-> embs_norm[i] * Norm(emb)]

SameSim(a, b) == ~SimLess(a, b) /\ ~SimLess(b, a)

C11_Step ==
    DetStep =>
        LET emb == CurDet.embedding
            m == seen'[emb]
        IN  m.idx # None =>
                /\ m.idx \in 1..Len(names)
                /\ m.sim = SimOf(m.idx, emb)
                /\ \A j \in 1..Len(names) : ~SimLess(m.sim, SimOf(j, emb))
                /\ \A j \in 1..Len(names) :
                      SameSim(SimOf(j, emb), m.sim) => m.idx <= j

C11_FirstOfTies == [][C11_Step]_vars

\* a query as close to the second identity as to the first was matched to
\* the first and logged under its name
C11_Witness ==
    /\ Len(names) = 2
    /\ \E emb \in DOMAIN seen :
          /\ SameSim(SimOf(1, emb), SimOf(2, emb))
          /\ seen[emb].idx = 1
          /\ seen[emb].name = names[1]
          /\ names[1] \in DOMAIN sent_at

----------------------------------------------------------------------------
(* C12.  The registry built by load_known_embeddings contains an identity  *)
(* iff at least one of its enrollment images is readable and yields a      *)
(* detection; its reference vector is the component-wise arithmetic mean   *)
(* of the embeddings of all such images; unreadable or face-less images    *)
(* and identities with no usable image are skipped without an error.       *)

Usable(img) == img.readable /\ Len(img.res) > 0

UsableOf(e) == { j \in 1..Len(e.files) : Usable(e.files[j]) }

Enrolled(e) == e.is_dir /\ UsableOf(e) # {}

KnownNames == { known[i][1] : i \in 1..Len(known) }

ListedNames == { folder.entries[i].name : i \in 1..Len(folder.entries) }

\* the sum of component c of the first embedding of the files S of e
RECURSIVE SumOver(_, _, _)
SumOver(S, e, c) ==
    IF S = {} THEN 0
    ELSE LET j == CHOOSE j \in S : TRUE
         IN  e.files[j].res[1][c] + SumOver(S \ {j}, e, c)

C12_Enrollment ==
    pc # "import" =>
        /\ \A n \in ListedNames \cup KnownNames :
              n \in KnownNames <=>
                 /\ folder.exists
                 /\ \E i \in 1..Len(folder.entries) :
                       folder.entries[i].name = n /\ Enrolled(folder.entries[i])
        /\ Len(known) = Cardinality(KnownNames)
        /\ \A i \in 1..Len(known), k \in 1..Len(folder.entries) :
              folder.entries[k].name = known[i][1] =>
                 LET e == folder.entries[k]
                 IN  \A c \in 1..Len(known[i][2]) :
                        Cardinality(UsableOf(e)) * known[i][2][c]
                            = SumOver(UsableOf(e), e, c)
        /\ pc = "open"
        /\ exit = "running"

\* the identity with the embeddings [6,0] and [0,8] is enrolled with [3,4];
\* the one with an unreadable and a face-less image is left out
C12_Witness ==
    /\ pc = "open"
    /\ folder.entries =
          << Entry("Alice", TRUE, << Image(TRUE, << <<6, 0>> >>),
                                     Image(TRUE, << <<0, 8>> >>) >>),
             Entry("Bob", TRUE, << Image(FALSE, << >>), Image(TRUE, << >>) >>) >>
    /\ known = << << "Alice", <<3, 4>> >> >>

----------------------------------------------------------------------------
(* C13.  The registry and its derived cache are built once before the main *)
(* loop and never change during it: in every state of the loop the name    *)
(* list, the reference matrix and the norms vector are equal to their      *)
(* startup values, they have the same length, and row i and norm i belong  *)
(* to name i.                                                              *)

\* the three arrays are those line 71-73 derive from the dictionary
C13_Consistent ==
    /\ Len(names) = Len(known)
    /\ Len(embs_array) = Len(known)
    /\ Len(embs_norm) = Len(known)
    /\ \A i \in 1..Len(known) :
          /\ names[i] = known[i][1]
          /\ embs_array[i] = known[i][2]
          /\ embs_norm[i] >= 0
          /\ embs_norm[i] * embs_norm[i] = Dot(embs_array[i], embs_array[i])

C13_RegistryFixed ==
    /\ []C13_Consistent
    /\ [][UNCHANGED << names, embs_array, embs_norm, known >>]_vars

\* two identities are enrolled, one of them was matched and logged, and the
\* loop is on its last frame
C13_Witness ==
    /\ Len(names) = 2
    /\ frame_id = MaxFrames
    /\ pc = "show"
    /\ DOMAIN known_cooldowns # {}
    /\ DOMAIN saved_at # {}

----------------------------------------------------------------------------
(* C14.  Dispatch never blocks the main loop: with any number of delivery  *)
(* threads in flight or stalled, the loop can process the next detection   *)
(* and read the next frame; and a step of a delivery thread, in every      *)
(* interleaving, leaves the cooldown tables, the frame counter and the     *)
(* detection list as they are, so that the loop decides as if no thread    *)
(* were running.                                                           *)

\* whatever threads holds, main can take its next step
C14_LoopEnabled ==
    /\ pc = "dets" => ENABLED Process
    /\ pc = "detect" => ENABLED Detect
    /\ pc = "show" => ENABLED (ShowFrame /\ pc' = "read")
    /\ pc = "read" /\ frame_id < MaxFrames => ENABLED (ReadFrame /\ frame_id' = frame_id + 1)

\* a step that ends a delivery thread
TaskStep == BagCardinality(threads') < BagCardinality(threads)

C14_TaskStep ==
    TaskStep => UNCHANGED << unknown_cooldowns, known_cooldowns, frame_id, last_detections,
                            di, pc, clock, ev, sent_at, saved_at, seen, returned, cap >>

C14_NeverBlocks == []C14_LoopEnabled /\ [][C14_TaskStep]_vars

\* two deliveries started on one frame are still in flight while the loop
\* has read the next frame and processed its first detection
C14_Witness ==
    /\ BagCardinality(threads) >= 2
    /\ frame_id = SKIP_FRAMES + 1
    /\ pc = "dets"
    /\ di = 2
    /\ inserts = 0

----------------------------------------------------------------------------
(* C15.  A detection is a known match iff match returns an identity and    *)
(* the similarity returned is at least SIM_THRESHOLD; otherwise it takes   *)
(* the unknown branch, even when a nearest identity exists.  Each          *)
(* detection takes exactly one branch: a known match saves no unknown face *)
(* and dispatches no "Unknown", an unknown detection dispatches no         *)
(* identity name.                                                          *)

\* num / (den + 1e-8) >= SIM_THRESHOLD / 100: the two sides of
\* 100 * num >= SIM_THRESHOLD * den + SIM_THRESHOLD * 1e-8 differ by an
\* integer and 0 < SIM_THRESHOLD * 1e-8 < 1
AtLeastThreshold(sim) == 100 * sim.num - SIM_THRESHOLD * sim.den >= 1

C15_Step ==
    DetStep =>
        LET m == seen'[CurDet.embedding]
            isKnown == ev'.kind = "known"
        IN  /\ isKnown <=> (m.idx # None /\ AtLeastThreshold(m.sim))
            /\ isKnown =>
                  /\ ev'.name = names[m.idx]
                  /\ ~ev'.wrote
                  /\ saved_at' = saved_at
                  /\ unknown_cooldowns' = unknown_cooldowns
                  /\ threads' \in {threads, threads (+) SetToBag({Payload(ev'.name, TRUE)})}
            /\ ~isKnown =>
                  /\ ev'.kind \in {"cutoff", "unknown"}
                  /\ ev'.name = "Unknown"
                  /\ known_cooldowns' = known_cooldowns
                  /\ threads' \in {threads, threads (+) SetToBag({Payload("Unknown", FALSE)})}

----------------------------------------------------------------------------
(* C16.  Containment and sharpness are evaluated on the unknown branch     *)
(* only: for a known match, whether the event is logged depends on the     *)
(* name, its last-logged time and the current time alone, so that a known  *)
(* face that touches the frame edge or is blurry is logged exactly as a    *)
(* well-placed sharp one.                                                  *)

\* the last-logged time the throttle reads for n (line 194)
LastLog(n) == IF n \in DOMAIN known_cooldowns THEN known_cooldowns[n] ELSE 0

Boxes == { d.bbox : d \in Detections }

\* the same face at the place b with a crop of Laplacian variance l
Placed(det, b, l) ==
    process_detection(known_cooldowns, unknown_cooldowns,
                      [det EXCEPT !.bbox = b], clock', l)

C16_Step ==
    \A n \in Names :
        KnownEvent(n) =>
            /\ IF clock' - LastLog(n) > KNOWN_LOG_COOLDOWN
               THEN KnownAllowed(n) ELSE KnownSuppressed
            /\ \A b \in Boxes, l \in LapVars :
                  /\ Placed(CurDet, b, l).kc = known_cooldowns'
                  /\ (Placed(CurDet, b, l).sent # << >>) = ev'.sent

C16_KnownNotGated == [][C16_Step]_vars

\* a known face whose box touches the left edge was logged
C16_Witness ==
    /\ pc \in {"dets", "show"}
    /\ di > 1
    /\ ev.kind = "known"
    /\ ev.sent
    /\ face_cutoff(last_detections[di - 1].bbox, FRAME_WIDTH, FRAME_HEIGHT)
    /\ \E b \in Boxes : ~face_cutoff(b, FRAME_WIDTH, FRAME_HEIGHT)

----------------------------------------------------------------------------
(* C17.  An "Unknown" event is dispatched iff save_unknown returned        *)
(* success for the same detection in the same step: every "Unknown"        *)
(* dispatch comes with exactly one save and a refreshed fingerprint time,  *)
(* and every successful save with exactly one "Unknown" dispatch.          *)

\* the number of started threads that carry the "Unknown" event
UnknownThreads(thr) == CopiesIn(Payload("Unknown", FALSE), thr)

C17_Step ==
    /\ DetStep =>
          IF ev'.wrote
          THEN /\ UnknownThreads(threads') = UnknownThreads(threads) + 1
               /\ ev'.kind = "unknown"
               /\ saved_at'[CurKey] = clock'
               /\ unknown_cooldowns'[CurKey] = clock'
               /\ \A k \in DOMAIN saved_at \ {CurKey} : saved_at'[k] = saved_at[k]
          ELSE /\ UnknownThreads(threads') = UnknownThreads(threads)
               /\ saved_at' = saved_at
               /\ unknown_cooldowns' = unknown_cooldowns
    /\ ~DetStep => /\ UnknownThreads(threads') <= UnknownThreads(threads)
                   /\ saved_at' = saved_at

C17_UnknownIffSaved == [][C17_Step]_vars

\* the same face was saved a second time, a window after the first, and
\* both "Unknown" events are in flight
C17_Witness ==
    /\ ev.kind = "unknown"
    /\ ev.wrote
    /\ ev.sent
    /\ UnknownThreads(threads) = 2
    /\ \E k \in DOMAIN saved_at : saved_at[k] = clock /\ clock >= UNKNOWN_SAVE_COOLDOWN

----------------------------------------------------------------------------
(* C18.  Processing one detection changes at most one cooldown entry: a    *)
(* detection rejected by containment, detection score or sharpness, or     *)
(* suppressed by a throttle, leaves both tables unchanged; an allowed      *)
(* known-identity log changes only that name's entry of the by-identity    *)
(* table; an allowed unknown save changes only that fingerprint's entry of *)
(* the by-fingerprint table.                                               *)

\* the keys whose entry differs between the tables t and u
Changed(t, u) ==
    { k \in DOMAIN t \cup DOMAIN u :
        k \notin DOMAIN t \/ k \notin DOMAIN u \/ t[k] # u[k] }

\* the detection fails containment, detection score or sharpness
Rejected ==
    \/ ev'.kind = "cutoff"
    \/ ev'.kind = "unknown" /\ CurDet.det_score < MIN_DETECTION_SCORE
    \/ ev'.kind = "unknown" /\ ev'.lap <= BLUR_THRESHOLD

C18_Step ==
    DetStep =>
        LET byName == Changed(known_cooldowns, known_cooldowns')
            byPrint == Changed(unknown_cooldowns, unknown_cooldowns')
        IN  /\ Cardinality(byName) + Cardinality(byPrint) <= 1
            /\ Rejected \/ ~ev'.sent => byName = {} /\ byPrint = {}
            /\ ev'.kind = "known" /\ ev'.sent =>
                  /\ byName = {ev'.name}
                  /\ known_cooldowns'[ev'.name] = clock'
                  /\ byPrint = {}
            /\ ev'.kind = "unknown" /\ ev'.sent =>
                  /\ byPrint = {CurKey}
                  /\ unknown_cooldowns'[CurKey] = clock'
                  /\ byName = {}

C18_OneEntry == [][C18_Step]_vars

\* with an entry in each table, a contained face with a good score, last
\* saved a window ago, came with a blurry crop and was rejected
C18_Witness ==
    /\ DOMAIN known_cooldowns # {}
    /\ DOMAIN unknown_cooldowns # {}
    /\ pc \in {"dets", "show"}
    /\ di > 1
    /\ ev.kind = "unknown"
    /\ ev.lap = BLUR_THRESHOLD
    /\ last_detections[di - 1].det_score >= MIN_DETECTION_SCORE
    /\ \E k \in DOMAIN unknown_cooldowns :
          /\ k = tobytes(last_detections[di - 1].embedding)
          /\ clock - unknown_cooldowns[k] >= UNKNOWN_SAVE_COOLDOWN

----------------------------------------------------------------------------
(* C19.  The key set of each cooldown table never shrinks (no entry is     *)
(* evicted or expires), and, the clock never going back, the time stored   *)
(* for a key never decreases and is never later than the current time.     *)

\* every entry of t is kept in u, with a time that is not earlier
Grows(t, u) ==
    /\ DOMAIN t \subseteq DOMAIN u
    /\ \A k \in DOMAIN t : u[k] >= t[k]

NotLater(t) == \A k \in DOMAIN t : t[k] <= clock

C19_TablesGrow ==
    /\ [](NotLater(known_cooldowns) /\ NotLater(unknown_cooldowns))
    /\ [][/\ clock' >= clock
          /\ Grows(known_cooldowns, known_cooldowns')
          /\ Grows(unknown_cooldowns, unknown_cooldowns')]_vars

\* the entry of a name is older than the clock and kept, while the entry of
\* a fingerprint was refreshed a window or more after the name was logged
C19_Witness ==
    \E n \in DOMAIN known_cooldowns, k \in DOMAIN unknown_cooldowns :
        /\ known_cooldowns[n] < clock
        /\ unknown_cooldowns[k] = clock
        /\ k \in DOMAIN saved_at
        /\ unknown_cooldowns[k] >= known_cooldowns[n] + UNKNOWN_SAVE_COOLDOWN

----------------------------------------------------------------------------
(* C20.  The stop signal is checked exactly once per frame, after every    *)
(* detection of the frame has been processed: a stop request that arrives  *)
(* while a frame is processed skips none of its detections, no frame is    *)
(* read after the stop is observed, and once a stop signal or a read       *)
(* failure occurs the loop terminates.                                     *)

AllProcessed == di = Len(last_detections) + 1

C20_Step ==
    \* the stop is observed at the poll, with the frame's detections done
    /\ exit' = "stop" /\ exit # "stop" =>
          pc = "show" /\ AllProcessed /\ pc' = "done"
    \* the poll is reached from the frame's processing only, once all is done
    /\ pc' = "show" /\ pc # "show" =>
          pc \in {"read", "detect", "dets"} /\ AllProcessed'
    \* one poll ends the frame: the next frame is read, or the loop is left
    /\ pc = "show" /\ pc' # "show" =>
          \/ pc' = "read" /\ exit' = exit
          \/ pc' = "done" /\ exit' = "stop"
    \* the for loop is left early by an exception only
    /\ pc = "dets" /\ pc' \notin {"dets", "show"} =>
          pc' = "done" /\ exit' = "exception"
    \* frames are read by the running loop only
    /\ reads' # reads => pc = "read" /\ exit = "running" /\ pc' # "read"
    \* a stop or a read failure ends the loop
    /\ exit' \in {"stop", "read_failed"} => pc' = "done" /\ reads' = reads

C20_StopOncePerFrame == [][C20_Step]_vars

\* the loop stopped on a detection frame after both of its detections
C20_Witness ==
    /\ pc = "done"
    /\ exit = "stop"
    /\ frame_id = SKIP_FRAMES
    /\ Len(last_detections) = 2
    /\ di = 3
    /\ ev.kind # "none"

====
